---- MODULE Spec2Model ----
(***************************************************************************)
(* A model of the PDF-to-Markdown pipeline of src/pdf2md.py:               *)
(* PDFToMarkdownConverter._split_pdf, _process_chunk, convert_to_markdown  *)
(* and save_markdown.  Non-ASCII literals of the source are written in     *)
(* ASCII here: "<!-- failed: " stands for the placeholder prefix of line   *)
(* 148, "convert error: " for the wrapper prefix of line 217, "read        *)
(* error: " for the prefix of line 108, "save error: " for line 242.       *)
(***************************************************************************)
EXTENDS Integers, Sequences, FiniteSets, TLC

\* ------------------------------------------------------------ bounds
\* Pages of the input document, pages per chunk and retries explored by
\* Spec and SpecModes.
MaxPages == 3
MaxChunkSize == 2
MaxRetriesBound == 2
\* Pages of the document converted twice by SpecModes.
MaxModesPages == 2
\* Larger documents explored by SpecSplit (sequential, remote model succeeds).
MaxSplitPages == 10
MaxSplitChunkSize == 4
\* Length of the texts and prior destination contents, and number of
\* save_markdown calls, explored by SpecSave.
MaxTextLen == 2
MaxSaves == 2
\* Pages of the document of the overlapping call explored by SpecOverlap.
MaxOtherPages == 2

\* Tokens a text handed to save_markdown is made of.
TextTokens == {"a", "\n\n"}

VARIABLES
    chunk_size,     \* self.chunk_size
    max_retries,    \* self.max_retries
    doc_pages,      \* page_count of the document at pdf_path
    plan,           \* the `parallel` arguments of the calls the caller still makes
    pc,             \* position of the convert_to_markdown call
    parallel,       \* argument `parallel` of the call
    start,          \* _split_pdf: loop variable `start`
    split_files,    \* _split_pdf: its local list `temp_files`
    temp_files,     \* convert_to_markdown: its local list `temp_files`
    disk,           \* files of self.temp_dir: file id -> pages it holds
    next_uuid,      \* the next fresh uuid4 file name
    created,        \* history: files written to disk during the current call
    jobs,           \* per chunk index: the _process_chunk invocation
    oracle,         \* outcome of the remote model per <<chunk, attempt>>
    results,        \* convert_to_markdown: the list `results`
    completion,     \* history: chunk indices in the order their results were appended
    cur,            \* sequential mode: loop variable `idx`
    exc,            \* the message of the exception caught at line 216
    pending,        \* what the try block leaves for after `finally`
    success_count,  \* convert_to_markdown: success_count (line 211)
    visited,        \* history: files the finally loop has gone over
    delivered,      \* what the caller of convert_to_markdown received
    by_mode,        \* history: what each mode returned for this document
    out_file,       \* the file at output_path: whether it exists, its contents
    save_log,       \* history: the save_markdown calls made, oldest first
    other_pc,       \* position of a second, overlapping convert_to_markdown call
    other_pages,    \* page_count of the document of the second call
    other_start,    \* `start` of _split_pdf in the second call
    other_files,    \* temp_files of the second call
    other_cur,      \* the chunk the second call processes next
    other_missed    \* history: chunks whose file the second call could not read

confVars == <<chunk_size, max_retries, doc_pages>>
splitVars == <<start, split_files>>
saveVars == <<out_file, save_log>>
otherVars == <<other_pc, other_pages, other_start, other_files, other_cur,
               other_missed>>
vars == <<chunk_size, max_retries, doc_pages, plan, pc, parallel, start,
          split_files, temp_files, disk, next_uuid, created, jobs, oracle,
          results, completion, cur, exc, pending, success_count, visited,
          delivered, by_mode, out_file, save_log, other_pc, other_pages,
          other_start, other_files, other_cur, other_missed>>

\* ------------------------------------------------------------ values
\* Python's None: what _process_chunk returns when its loop body never runs.
None == [none |-> TRUE]
\* No file at a path.
NoFile == [exists |-> FALSE, content |-> <<>>]

Min(a, b) == IF a < b THEN a ELSE b

\* The document at pdf_path: its pages, numbered from 1.
Document == [p \in 1..doc_pages |-> p]

\* Number of chunks of the current call (chunks_count, line 166).
chunks_count == Len(temp_files)

\* What the try block has left to do once `finally` has run.
NoOutcome == [kind |-> "none"]

\* ------------------------------------------------------------ _split_pdf
\* Line 80: end = min(start + self.chunk_size, total_pages).
ChunkEnd(s, total) == Min(s + chunk_size, total)

\* insert_pdf taking to_page as excluded: each chunk loses its last page.
InsertPdfExclusive(doc, from_page, to_page) == SubSeq(doc, from_page + 1, to_page)

\* Line 83: insert_pdf(doc, from_page, to_page) copies the pages from_page ..
\* to_page (numbered from 0, both included) of doc into the new document.
InsertPdf(doc, from_page, to_page) == SubSeq(doc, from_page + 1, to_page + 1)

\* ------------------------------------------------------------ _process_chunk
\* Line 125: page_info, the first and last page number of chunk chunk_index,
\* from the page count of the chunk file.
PageInfo(chunk_index, page_count) ==
    <<chunk_index * chunk_size + 1, chunk_index * chunk_size + page_count>>

\* Line 135: response.text of a successful call: the remote model transcribes
\* the pages it is sent, one token per page.
ResponseText(pages) == [k \in 1..Len(pages) |-> "page" \o ToString(pages[k])]

\* Lines 136-140: the result of a successful attempt.
SuccessResult(chunk_index, text) ==
    [index |-> chunk_index, content |-> text, success |-> TRUE]

\* A failure result whose placeholder drops the error message.
FailureResultNoMessage(chunk_index, e) ==
    [index |-> chunk_index, content |-> <<"<!-- failed -->">>, success |-> FALSE]

\* Lines 146-150: the result once the last attempt has failed with message e.
FailureResult(chunk_index, e) ==
    [index |-> chunk_index, content |-> <<"<!-- failed: " \o e \o " -->">>,
     success |-> FALSE]

\* Line 143: time.sleep(2 ** attempt).
BackoffDelay(attempt) == 2 ^ attempt

\* Line 135: the message of the error the remote model answers request number
\* attempt for chunk chunk_index with, when it fails: each failing request has
\* its own message.
RemoteError(chunk_index, attempt) ==
    "error " \o ToString(chunk_index) \o "." \o ToString(attempt)

\* Line 108: the message _read_pdf_file raises when the chunk file is gone.
ReadError == "read error: no such file"

\* A _process_chunk invocation: st is "none" (not called), "queued" (called or
\* submitted), "running" (in attempt `attempt`), "returned" or "collected"
\* (its result is in `results`).
\* attempts, errs (the messages of the attempts that raised), sleeps (the
\* delays slept), page_info and awaited (the job was unfinished when the
\* executor's with block was left by an exception) are its history.
NewJob == [st |-> "none", attempt |-> 0, value |-> None, attempts |-> 0,
           errs |-> <<>>, sleeps |-> <<>>, page_info |-> <<>>,
           awaited |-> FALSE]

\* ------------------------------------------------------------ convert_to_markdown
\* Line 198: results.sort(key=lambda x: x['index']): a stable sort on index.
RECURSIVE InsertByIndex(_, _)
InsertByIndex(sorted, r) ==
    IF sorted = <<>> THEN <<r>>
    ELSE IF Head(sorted).index <= r.index
         THEN <<Head(sorted)>> \o InsertByIndex(Tail(sorted), r)
         ELSE <<r>> \o sorted

\* The results left in the order they were appended in.
NoSort(rs) == rs

RECURSIVE SortByIndex(_)
SortByIndex(rs) ==
    IF rs = <<>> THEN <<>>
    ELSE InsertByIndex(SortByIndex(SubSeq(rs, 1, Len(rs) - 1)), rs[Len(rs)])

\* Line 199: "\n\n".join(result['content'] for result in results).
RECURSIVE JoinContents(_)
JoinContents(rs) ==
    IF rs = <<>> THEN <<>>
    ELSE IF Len(rs) = 1 THEN rs[1].content
    ELSE rs[1].content \o <<"\n\n">> \o JoinContents(Tail(rs))

\* Line 211: sum(1 for r in results if r['success']).
SuccessCount(rs) == Cardinality({k \in 1..Len(rs) : rs[k].success})

\* Line 217: error_msg = "...: " + str(e).
WrapError(msg) == "convert error: " \o msg

\* The key function of line 198 raises TypeError on a None result.
HasNone(rs) == \E k \in 1..Len(rs) : rs[k] = None

\* ------------------------------------------------------------ the file system
Exists(f) == f \in DOMAIN disk
Remove(fs) == [g \in DOMAIN disk \ fs |-> disk[g]]
Range(seq) == {seq[k] : k \in 1..Len(seq)}

\* ------------------------------------------------------------ initial states
\* The converter after __init__ (lines 14-46), before any call: an empty temp
\* directory, no output file.
InitCall ==
    /\ pc = "idle"
    /\ parallel = FALSE
    /\ start = 0
    /\ split_files = <<>>
    /\ temp_files = <<>>
    /\ disk = <<>>
    /\ next_uuid = 1
    /\ created = {}
    /\ jobs = <<>>
    /\ oracle = <<>>
    /\ results = <<>>
    /\ completion = <<>>
    /\ cur = 0
    /\ exc = ""
    /\ pending = NoOutcome
    /\ success_count = 0
    /\ visited = {}
    /\ delivered = NoOutcome
    /\ by_mode = [m \in BOOLEAN |-> None]
    /\ other_pc = "idle"
    /\ other_pages = 0
    /\ other_start = 0
    /\ other_files = <<>>
    /\ other_cur = 0
    /\ other_missed = {}

Init ==
    /\ chunk_size \in 1..MaxChunkSize
    /\ max_retries \in 0..MaxRetriesBound
    /\ doc_pages \in 0..MaxPages
    /\ plan \in {<<FALSE>>, <<TRUE>>}
    /\ InitCall
    /\ out_file = NoFile
    /\ save_log = <<>>

\* ------------------------------------------------------------ actions: split
\* convert_to_markdown is called (lines 151-163): temp_files = [].
Convert(p) ==
    /\ pc \in {"idle", "returned", "raised"}
    /\ plan # <<>>
    /\ p = Head(plan)
    /\ plan' = Tail(plan)
    /\ parallel' = p
    /\ pc' = "split"
    /\ temp_files' = <<>>
    /\ split_files' = <<>>
    /\ start' = 0
    /\ created' = {}
    /\ jobs' = <<>>
    /\ results' = <<>>
    /\ completion' = <<>>
    /\ cur' = 0
    /\ exc' = ""
    /\ pending' = NoOutcome
    /\ success_count' = 0
    /\ visited' = {}
    /\ delivered' = NoOutcome
    /\ UNCHANGED <<confVars, otherVars, disk, next_uuid, oracle, by_mode, saveVars>>

\* _split_pdf, lines 75-78: the document opens; the loop starts at page 0.
SplitOpen ==
    /\ pc = "split"
    /\ pc' = "split_loop"
    /\ split_files' = <<>>
    /\ start' = 0
    /\ UNCHANGED <<confVars, otherVars, plan, parallel, temp_files, disk, next_uuid,
                   created, jobs, oracle, results, completion, cur, exc, pending,
                   success_count, visited, delivered, by_mode, saveVars>>

\* A failure of fitz.open that is recorded but does not leave _split_pdf.
SplitOpenFailContinues ==
    /\ pc = "split"
    /\ exc' = "cannot open document"
    /\ pc' = "split_loop"
    /\ UNCHANGED <<confVars, otherVars, plan, parallel, splitVars, temp_files, disk,
                   next_uuid, created, jobs, oracle, results, completion, cur, pending,
                   success_count, visited, delivered, by_mode, saveVars>>

\* _split_pdf, line 76: fitz.open(pdf_path) raises; nothing was written.
SplitOpenFail ==
    /\ pc = "split"
    /\ exc' = "cannot open document"
    /\ pc' = "except"
    /\ UNCHANGED <<confVars, otherVars, plan, parallel, splitVars, temp_files, disk,
                   next_uuid, created, jobs, oracle, results, completion, cur, pending,
                   success_count, visited, delivered, by_mode, saveVars>>

\* _split_pdf, lines 79-88: one iteration writes one chunk file under a fresh
\* name and appends the name to the local list.
SplitChunk ==
    /\ pc = "split_loop"
    /\ start < doc_pages
    /\ LET end == ChunkEnd(start, doc_pages)
           f == next_uuid
       IN /\ disk' = (f :> InsertPdf(Document, start, end - 1)) @@ disk
          /\ created' = created \cup {f}
          /\ split_files' = Append(split_files, f)
          /\ next_uuid' = f + 1
    /\ start' = start + chunk_size
    /\ UNCHANGED <<confVars, otherVars, plan, pc, parallel, temp_files, jobs, oracle,
                   results, completion, cur, exc, pending, success_count, visited,
                   delivered, by_mode, saveVars>>

\* _split_pdf, lines 82-86: insert_pdf or save raises in an iteration; a
\* failing save may leave a partial file behind.  The local list is lost.
SplitChunkFail(partial) ==
    /\ pc = "split_loop"
    /\ start < doc_pages
    /\ IF partial
       THEN /\ disk' = (next_uuid :> <<>>) @@ disk
            /\ created' = created \cup {next_uuid}
            /\ next_uuid' = next_uuid + 1
       ELSE UNCHANGED <<disk, created, next_uuid>>
    /\ exc' = "cannot write chunk"
    /\ pc' = "except"
    /\ UNCHANGED <<confVars, otherVars, plan, parallel, splitVars, temp_files, jobs,
                   oracle, results, completion, cur, pending, success_count, visited,
                   delivered, by_mode, saveVars>>

\* _split_pdf returns (lines 89-90); lines 165-168: temp_files = the list,
\* results = [].
SplitReturn ==
    /\ pc = "split_loop"
    /\ start >= doc_pages
    /\ temp_files' = split_files
    /\ results' = <<>>
    /\ completion' = <<>>
    /\ jobs' = [i \in 0..(Len(split_files) - 1) |-> NewJob]
    /\ cur' = 0
    /\ pc' = IF parallel THEN "submit" ELSE "sequential"
    /\ UNCHANGED <<confVars, otherVars, plan, parallel, splitVars, disk, next_uuid,
                   created, oracle, exc, pending, success_count, visited,
                   delivered, by_mode, saveVars>>

\* ------------------------------------------------------------ actions: _process_chunk
\* The remote model's outcome for attempt k on chunk i, once one was seen:
\* "ok" or "error"; "?" while none was.
Outcome(i, k) == IF <<i, k>> \in DOMAIN oracle THEN oracle[<<i, k>>] ELSE "?"

\* The chunk file of job i (temp_file of lines 174-175, 189).
FileOf(i) == temp_files[i + 1]

orchVars == <<plan, pc, parallel, splitVars, temp_files, disk,
              next_uuid, created, results, completion, cur, exc, pending, success_count,
              visited, delivered, by_mode>>

\* Line 120: _process_chunk is entered; with range(0) the loop body never
\* runs and the function falls off its end, returning None.
ProcessChunkEnter(i) ==
    /\ jobs[i].st = "queued"
    /\ jobs' = [jobs EXCEPT ![i] =
                  IF max_retries = 0
                  THEN [@ EXCEPT !.st = "returned", !.value = None]
                  ELSE [@ EXCEPT !.st = "running", !.attempt = 0]]
    /\ UNCHANGED <<confVars, otherVars, orchVars, oracle, saveVars>>

\* Lines 121-140: an attempt reads the chunk file, computes page_info, calls
\* the remote model and returns its text.
AttemptSucceed(i) ==
    /\ jobs[i].st = "running"
    /\ Exists(FileOf(i))
    /\ Outcome(i, jobs[i].attempt) \in {"?", "ok"}
    /\ oracle' = (<<i, jobs[i].attempt>> :> "ok") @@ oracle
    /\ jobs' = [jobs EXCEPT ![i] =
                  [@ EXCEPT !.st = "returned",
                            !.attempts = @ + 1,
                            !.page_info = PageInfo(i, Len(disk[FileOf(i)])),
                            !.value = SuccessResult(i, ResponseText(disk[FileOf(i)]))]]
    /\ UNCHANGED <<confVars, otherVars, orchVars, saveVars>>

\* An except clause that returns the failure result after any failed attempt.
HandlerGivesUpAtOnce(job, chunk_index, e) ==
    [job EXCEPT !.sleeps = Append(@, BackoffDelay(job.attempt)),
                !.st = "returned",
                !.value = FailureResult(chunk_index, e)]

\* An except clause that always goes on to another attempt.
HandlerRetriesForever(job, chunk_index, e) ==
    [job EXCEPT !.sleeps = Append(@, BackoffDelay(job.attempt)),
                !.attempt = @ + 1]

\* Lines 141-150, the except clause, with e the message of the exception and
\* job the invocation that caught it: the error is logged, the thread sleeps
\* 2 ** attempt, and then either the failure result is returned (the last
\* attempt) or the loop goes to the next attempt.
Handler(job, chunk_index, e) ==
    LET slept == [job EXCEPT !.sleeps = Append(@, BackoffDelay(job.attempt))]
    IN IF job.attempt = max_retries - 1
       THEN [slept EXCEPT !.st = "returned",
                          !.value = FailureResult(chunk_index, e)]
       ELSE [slept EXCEPT !.attempt = @ + 1]

\* Lines 121-135 and 141-150: an attempt raises (the read of line 122 when
\* the file is gone, else the remote call) and the except clause handles it.
AttemptFail(i) ==
    /\ jobs[i].st = "running"
    /\ IF Exists(FileOf(i))
       THEN /\ Outcome(i, jobs[i].attempt) \in {"?", "error"}
            /\ oracle' = (<<i, jobs[i].attempt>> :> "error") @@ oracle
            /\ jobs' = [jobs EXCEPT ![i] =
                          Handler([@ EXCEPT
                                     !.attempts = @ + 1,
                                     !.errs = Append(@, RemoteError(i, jobs[i].attempt)),
                                     !.page_info = PageInfo(i, Len(disk[FileOf(i)]))],
                                  i, RemoteError(i, jobs[i].attempt))]
       ELSE /\ oracle' = oracle
            /\ jobs' = [jobs EXCEPT ![i] =
                          Handler([@ EXCEPT !.attempts = @ + 1,
                                            !.errs = Append(@, ReadError)],
                                  i, ReadError)]
    /\ UNCHANGED <<confVars, otherVars, orchVars, saveVars>>

\* ------------------------------------------------------------ actions: dispatch
dispVars == <<confVars, otherVars, plan, parallel, splitVars, temp_files, disk,
              next_uuid, created, oracle, exc, pending, success_count,
              visited, delivered, by_mode, saveVars>>

\* Lines 172-176: every chunk is submitted to the pool.  The default pool has
\* at least 5 workers, more than the chunks explored, so no job waits for one.
Submit ==
    /\ pc = "submit"
    /\ jobs' = [i \in DOMAIN jobs |-> [jobs[i] EXCEPT !.st = "queued"]]
    /\ pc' = "collect"
    /\ UNCHANGED <<dispVars, results, completion, cur>>

\* A collection loop that may be handed the same finished future again.
CollectAgain(i) ==
    /\ pc = "collect"
    /\ jobs[i].st = "returned"
    /\ results' = Append(results, jobs[i].value)
    /\ completion' = Append(completion, i)
    /\ UNCHANGED <<dispVars, jobs, pc, cur>>

\* Lines 180-185: as_completed yields a finished future, in any order among
\* the finished ones; its result is appended.
Collect(i) ==
    /\ pc = "collect"
    /\ jobs[i].st = "returned"
    /\ results' = Append(results, jobs[i].value)
    /\ completion' = Append(completion, i)
    /\ jobs' = [jobs EXCEPT ![i].st = "collected"]
    /\ UNCHANGED <<dispVars, pc, cur>>

\* Lines 180, 172: as_completed is exhausted and the executor's with block
\* exits, which waits for every worker.
ExecutorExit ==
    /\ pc = "collect"
    /\ \A i \in DOMAIN jobs : jobs[i].st = "collected"
    /\ pc' = "assemble"
    /\ UNCHANGED <<dispVars, jobs, results, completion, cur>>

\* Lines 189-190: sequential mode calls _process_chunk for the next chunk.
SeqInvoke ==
    /\ pc = "sequential"
    /\ cur < chunks_count
    /\ jobs[cur].st = "none"
    /\ jobs' = [jobs EXCEPT ![cur].st = "queued"]
    /\ UNCHANGED <<dispVars, pc, results, completion, cur>>

\* Lines 190-195: the call has returned; its result is appended.
SeqAppend ==
    /\ pc = "sequential"
    /\ cur < chunks_count
    /\ jobs[cur].st = "returned"
    /\ results' = Append(results, jobs[cur].value)
    /\ completion' = Append(completion, cur)
    /\ jobs' = [jobs EXCEPT ![cur].st = "collected"]
    /\ cur' = cur + 1
    /\ UNCHANGED <<dispVars, pc>>

\* Line 189: the sequential loop is over.
SeqExit ==
    /\ pc = "sequential"
    /\ cur = chunks_count
    /\ pc' = "assemble"
    /\ UNCHANGED <<dispVars, jobs, results, completion, cur>>

\* ------------------------------------------------------------ actions: assembly
\* Lines 198-215: sort, join, count the successes, compute the ratio.  The
\* key function raises TypeError on a None result; the ratio raises
\* ZeroDivisionError when there is no chunk.
Assemble ==
    /\ pc = "assemble"
    /\ IF HasNone(results)
       THEN /\ exc' = "'NoneType' object is not subscriptable"
            /\ pc' = "except"
            /\ UNCHANGED <<results, pending, success_count>>
       ELSE /\ results' = SortByIndex(results)
            /\ success_count' = SuccessCount(results')
            /\ IF chunks_count = 0
               THEN /\ exc' = "division by zero"
                    /\ pc' = "except"
                    /\ UNCHANGED pending
               ELSE /\ pending' = [kind |-> "return",
                                   text |-> JoinContents(results')]
                    /\ pc' = "finally"
                    /\ UNCHANGED exc
    /\ UNCHANGED <<confVars, otherVars, plan, parallel, splitVars, temp_files, disk,
                   next_uuid, created, jobs, oracle, completion, cur, visited, delivered,
                   by_mode, saveVars>>

\* Lines 216-219: any exception of the try block is logged and replaced by
\* one Exception carrying the wrapped message.
ExceptHandler ==
    /\ pc = "except"
    /\ pending' = [kind |-> "raise", text |-> <<WrapError(exc)>>]
    /\ pc' = "finally"
    /\ UNCHANGED <<confVars, otherVars, plan, parallel, splitVars, temp_files, disk,
                   next_uuid, created, jobs, oracle, results, completion, cur, exc,
                   success_count, visited, delivered, by_mode, saveVars>>

\* The cleanup loop placed at the end of the try block instead of in
\* `finally`: it runs before a return, and not at all before a raise.
CleanupOnReturnOnly(failing) ==
    /\ pc = "finally"
    /\ failing \subseteq Range(temp_files) \cap DOMAIN disk
    /\ IF pending.kind = "return"
       THEN /\ disk' = Remove((Range(temp_files) \cap DOMAIN disk) \ failing)
            /\ visited' = Range(temp_files)
       ELSE UNCHANGED <<disk, visited>>
    /\ delivered' = pending
    /\ pc' = IF pending.kind = "return" THEN "returned" ELSE "raised"
    /\ by_mode' = IF pending.kind = "return"
                  THEN [by_mode EXCEPT ![parallel] =
                          [text |-> pending.text, success_count |-> success_count,
                           order |-> completion]]
                  ELSE by_mode
    /\ UNCHANGED <<confVars, otherVars, plan, parallel, splitVars, temp_files,
                   next_uuid, created, jobs, oracle, results, completion, cur,
                   exc, pending, success_count, saveVars>>

\* A finally block that empties the temp directory, as _cleanup_temp_dir does.
CleanupSweepsDirectory(failing) ==
    /\ pc = "finally"
    /\ failing \subseteq Range(temp_files) \cap DOMAIN disk
    /\ disk' = Remove(DOMAIN disk \ failing)
    /\ visited' = DOMAIN disk
    /\ delivered' = pending
    /\ pc' = IF pending.kind = "return" THEN "returned" ELSE "raised"
    /\ by_mode' = IF pending.kind = "return"
                  THEN [by_mode EXCEPT ![parallel] =
                          [text |-> pending.text, success_count |-> success_count,
                           order |-> completion]]
                  ELSE by_mode
    /\ UNCHANGED <<confVars, otherVars, plan, parallel, splitVars, temp_files,
                   next_uuid, created, jobs, oracle, results, completion, cur, exc, pending,
                   success_count, saveVars>>

\* Lines 220-227: the finally block goes over temp_files and removes each
\* file that exists; a removal that raises (the files of `failing`) is
\* logged and skipped.  Then the pending return or raise reaches the caller.
Cleanup(failing) ==
    /\ pc = "finally"
    /\ failing \subseteq Range(temp_files) \cap DOMAIN disk
    /\ disk' = Remove((Range(temp_files) \cap DOMAIN disk) \ failing)
    /\ visited' = Range(temp_files)
    /\ delivered' = pending
    /\ pc' = IF pending.kind = "return" THEN "returned" ELSE "raised"
    /\ by_mode' = IF pending.kind = "return"
                  THEN [by_mode EXCEPT ![parallel] =
                          [text |-> pending.text, success_count |-> success_count,
                           order |-> completion]]
                  ELSE by_mode
    /\ UNCHANGED <<confVars, otherVars, plan, parallel, splitVars, temp_files,
                   next_uuid, created, jobs, oracle, results, completion, cur, exc, pending,
                   success_count, saveVars>>

\* ------------------------------------------------------------ specification
Next ==
    \/ \E p \in BOOLEAN : Convert(p)
    \/ SplitOpen
    \/ SplitOpenFail
    \/ SplitChunk
    \/ \E partial \in BOOLEAN : SplitChunkFail(partial)
    \/ SplitReturn
    \/ Submit
    \/ \E i \in DOMAIN jobs : ProcessChunkEnter(i)
    \/ \E i \in DOMAIN jobs : AttemptSucceed(i)
    \/ \E i \in DOMAIN jobs : AttemptFail(i)
    \/ \E i \in DOMAIN jobs : Collect(i)
    \/ ExecutorExit
    \/ SeqInvoke
    \/ SeqAppend
    \/ SeqExit
    \/ Assemble
    \/ ExceptHandler
    \/ \E failing \in SUBSET DOMAIN disk : Cleanup(failing)

Spec == Init /\ [][Next]_vars

\* Every remote call and every sleep returns, and every thread that can take
\* a step takes one: no enabled step is put off forever.
SpecLive == Init /\ [][Next]_vars /\ WF_vars(Next)

\* ------------------------------------------------------------ a failing collection
\* Lines 184-185: the loop body raises for a yielded future (future.result(),
\* results.append or pbar.update); the exception leaves the with block of
\* line 172, whose exit starts waiting for the workers.
CollectRaise(i) ==
    /\ pc = "collect"
    /\ jobs[i].st = "returned"
    /\ exc' = "collect failed"
    /\ pc' = "exiting"
    /\ jobs' = [j \in DOMAIN jobs |->
                  [jobs[j] EXCEPT !.awaited =
                       jobs[j].st \notin {"returned", "collected"}]]
    /\ UNCHANGED <<confVars, otherVars, plan, parallel, splitVars, temp_files, disk,
                   next_uuid, created, oracle, results, completion, cur,
                   pending, success_count, visited, delivered, by_mode,
                   saveVars>>

\* ThreadPoolExecutor.__exit__ without the wait (shutdown(wait=False)): the
\* exception goes on to the except clause while workers still run.
ExecutorExitNoWait ==
    /\ pc = "exiting"
    /\ pc' = "except"
    /\ UNCHANGED <<dispVars, jobs, results, completion, cur>>

\* Line 172: ThreadPoolExecutor.__exit__ is shutdown(wait=True): the
\* exception goes on to the except clause once every submitted job has
\* finished.
ExecutorExitRaise ==
    /\ pc = "exiting"
    /\ \A i \in DOMAIN jobs : jobs[i].st \in {"returned", "collected"}
    /\ pc' = "except"
    /\ UNCHANGED <<confVars, otherVars, plan, parallel, splitVars, temp_files, disk,
                   next_uuid, created, jobs, oracle, results, completion, cur,
                   exc, pending, success_count, visited, delivered, by_mode,
                   saveVars>>

\* One call in which the collection loop may raise.
NextFaults ==
    \/ Next
    \/ \E i \in DOMAIN jobs : CollectRaise(i)
    \/ ExecutorExitRaise

SpecFaults == Init /\ [][NextFaults]_vars

\* ------------------------------------------------------------ two calls, both modes
\* The caller converts the same document twice with the same converter; the
\* remote model answers attempt k on chunk i the second time as it did the
\* first time (oracle keeps the outcomes seen).
InitModes ==
    /\ chunk_size \in 1..MaxChunkSize
    /\ max_retries \in 0..MaxRetriesBound
    /\ doc_pages \in 0..MaxModesPages
    /\ plan \in {<<FALSE, TRUE>>, <<TRUE, FALSE>>}
    /\ InitCall
    /\ out_file = NoFile
    /\ save_log = <<>>

SpecModes == InitModes /\ [][Next]_vars

\* ------------------------------------------------------------ larger documents
\* One sequential call on a larger document, with a remote model that
\* answers every request.
InitSplit ==
    /\ chunk_size \in 1..MaxSplitChunkSize
    /\ max_retries \in 1..MaxRetriesBound
    /\ doc_pages \in 0..MaxSplitPages
    /\ plan = <<FALSE>>
    /\ InitCall
    /\ out_file = NoFile
    /\ save_log = <<>>

NextSplit ==
    \/ Convert(FALSE)
    \/ SplitOpen
    \/ SplitChunk
    \/ SplitReturn
    \/ SeqInvoke
    \/ \E i \in DOMAIN jobs : ProcessChunkEnter(i)
    \/ \E i \in DOMAIN jobs : AttemptSucceed(i)
    \/ SeqAppend
    \/ SeqExit

SpecSplit == InitSplit /\ [][NextSplit]_vars

\* ------------------------------------------------------------ save_markdown
\* The texts of at most MaxTextLen tokens.
Texts == UNION {[1..n -> TextTokens] : n \in 0..MaxTextLen}

\* open(output_path, 'a'): an existing file keeps its contents.
OpenForAppend(old) == [exists |-> TRUE, content |-> old.content]

\* Line 238: open(output_path, 'w') creates the file or truncates it.
OpenForWrite(old) == [exists |-> TRUE, content |-> <<>>]

\* Line 239: f.write(markdown_text) adds the text at the end of the file.
FileWrite(file, text) == [file EXCEPT !.content = @ \o text]

\* Lines 237-240: the file is opened for writing, written and closed.
SaveMarkdown(markdown_text) ==
    /\ Len(save_log) < MaxSaves
    /\ out_file' = FileWrite(OpenForWrite(out_file), markdown_text)
    /\ save_log' = Append(save_log, [text |-> markdown_text, state |-> "saved"])
    /\ UNCHANGED <<confVars, otherVars, orchVars, jobs, oracle>>

\* Lines 238, 241-242: open raises (no directory, no permission); the
\* destination is as it was and a wrapped Exception reaches the caller.
SaveOpenFail(markdown_text) ==
    /\ Len(save_log) < MaxSaves
    /\ out_file' = out_file
    /\ save_log' = Append(save_log, [text |-> markdown_text, state |-> "save error: open"])
    /\ UNCHANGED <<confVars, otherVars, orchVars, jobs, oracle>>

\* Lines 239, 241-242: the file was opened (and truncated) and write raises
\* after n tokens (disk full); a wrapped Exception reaches the caller.
SaveWriteFail(markdown_text, n) ==
    /\ Len(save_log) < MaxSaves
    /\ n < Len(markdown_text)
    /\ out_file' = FileWrite(OpenForWrite(out_file), SubSeq(markdown_text, 1, n))
    /\ save_log' = Append(save_log, [text |-> markdown_text, state |-> "save error: write"])
    /\ UNCHANGED <<confVars, otherVars, orchVars, jobs, oracle>>

\* The converter after __init__; the destination holds anything or is absent.
InitSave ==
    /\ chunk_size \in 1..MaxChunkSize
    /\ max_retries \in 0..MaxRetriesBound
    /\ doc_pages = 0
    /\ plan = <<>>
    /\ InitCall
    /\ out_file \in {NoFile} \cup {[exists |-> TRUE, content |-> t] : t \in Texts}
    /\ save_log = <<>>

NextSave ==
    \/ \E t \in Texts : SaveMarkdown(t)
    \/ \E t \in Texts : SaveOpenFail(t)
    \/ \E t \in Texts, n \in 0..MaxTextLen : SaveWriteFail(t, n)

SpecSave == InitSave /\ [][NextSave]_vars

\* ------------------------------------------------------------ overlapping calls
\* A second convert_to_markdown call (sequential mode) that overlaps the
\* first: every converter uses the same directory (line 29), so both calls
\* write their chunk files to `disk` and draw names from the same uuid4 (a
\* fresh name each time, next_uuid).  Its remote calls are left out: only its
\* files, its reads of them and its cleanup are followed.
OtherDocument == [p \in 1..other_pages |-> p]

\* Lines 151-163 of the second call, on a document of n pages.
OtherConvert(n) ==
    /\ other_pc = "idle"
    /\ other_pc' = "split"
    /\ other_pages' = n
    /\ other_start' = 0
    /\ other_files' = <<>>
    /\ UNCHANGED <<confVars, plan, pc, parallel, splitVars, temp_files, disk,
                   next_uuid, created, jobs, oracle, results, completion, cur,
                   exc, pending, success_count, visited, delivered, by_mode,
                   saveVars, other_cur, other_missed>>

\* Lines 79-88 of the second call: one chunk file under a fresh name.
OtherSplitChunk ==
    /\ other_pc = "split"
    /\ other_start < other_pages
    /\ LET end == ChunkEnd(other_start, other_pages)
           f == next_uuid
       IN /\ disk' = (f :> InsertPdf(OtherDocument, other_start, end - 1)) @@ disk
          /\ other_files' = Append(other_files, f)
          /\ next_uuid' = f + 1
    /\ other_start' = other_start + chunk_size
    /\ UNCHANGED <<confVars, plan, pc, parallel, splitVars, temp_files,
                   created, jobs, oracle, results, completion, cur, exc, pending,
                   success_count, visited, delivered, by_mode, saveVars,
                   other_pc, other_pages, other_cur, other_missed>>

\* Lines 89-90 and 165-168 of the second call.
OtherSplitReturn ==
    /\ other_pc = "split"
    /\ other_start >= other_pages
    /\ other_pc' = "process"
    /\ other_cur' = 0
    /\ UNCHANGED <<confVars, plan, pc, parallel, splitVars, temp_files, disk,
                   next_uuid, created, jobs, oracle, results, completion, cur,
                   exc, pending, success_count, visited, delivered, by_mode,
                   saveVars, other_pages, other_start, other_files, other_missed>>

\* Lines 189-195 and 122 of the second call: the job of the next chunk reads
\* its chunk file, or finds it gone.
OtherRead ==
    /\ other_pc = "process"
    /\ other_cur < Len(other_files)
    /\ other_missed' = IF Exists(other_files[other_cur + 1])
                       THEN other_missed
                       ELSE other_missed \cup {other_cur}
    /\ other_cur' = other_cur + 1
    /\ UNCHANGED <<confVars, plan, pc, parallel, splitVars, temp_files, disk,
                   next_uuid, created, jobs, oracle, results, completion, cur,
                   exc, pending, success_count, visited, delivered, by_mode,
                   saveVars, other_pc, other_pages, other_start, other_files>>

\* Lines 197-215 of the second call: every chunk was processed.
OtherAssemble ==
    /\ other_pc = "process"
    /\ other_cur = Len(other_files)
    /\ other_pc' = "finally"
    /\ UNCHANGED <<confVars, plan, pc, parallel, splitVars, temp_files, disk,
                   next_uuid, created, jobs, oracle, results, completion, cur,
                   exc, pending, success_count, visited, delivered, by_mode,
                   saveVars, other_pages, other_start, other_files, other_cur,
                   other_missed>>

\* Lines 220-227 of the second call: it removes the files of its temp_files.
OtherCleanup ==
    /\ other_pc = "finally"
    /\ disk' = Remove(Range(other_files) \cap DOMAIN disk)
    /\ other_pc' = "done"
    /\ UNCHANGED <<confVars, plan, pc, parallel, splitVars, temp_files,
                   next_uuid, created, jobs, oracle, results, completion, cur,
                   exc, pending, success_count, visited, delivered, by_mode,
                   saveVars, other_pages, other_start, other_files, other_cur,
                   other_missed>>

NextOverlap ==
    \/ Next
    \/ \E n \in 1..MaxOtherPages : OtherConvert(n)
    \/ OtherSplitChunk
    \/ OtherSplitReturn
    \/ OtherRead
    \/ OtherAssemble
    \/ OtherCleanup

\* One call in either mode on a small document, without retries, overlapped
\* by the second call.
InitOverlap ==
    /\ chunk_size \in 1..MaxChunkSize
    /\ max_retries = 1
    /\ doc_pages \in 0..MaxModesPages
    /\ plan \in {<<FALSE>>, <<TRUE>>}
    /\ InitCall
    /\ out_file = NoFile
    /\ save_log = <<>>

SpecOverlap == InitOverlap /\ [][NextOverlap]_vars

\* ------------------------------------------------------------ properties
Done(i) == jobs[i].st \in {"returned", "collected"}

\* Every attempt of job i was made and failed.
AllFailed(i) ==
    /\ Done(i)
    /\ jobs[i].attempts >= 1
    /\ Len(jobs[i].errs) = jobs[i].attempts

\* The contents the jobs i, i+1, ... returned, in index order, with "\n\n"
\* between two of them.
RECURSIVE ContentsFrom(_)
ContentsFrom(i) ==
    IF i >= chunks_count THEN <<>>
    ELSE IF i = chunks_count - 1 THEN jobs[i].value.content
    ELSE jobs[i].value.content \o <<"\n\n">> \o ContentsFrom(i + 1)

\* C1: whatever order the chunk jobs complete in, the text a call returns is
\* the contents the jobs returned, in ascending chunk index order, joined by
\* "\n\n".
C1_OutputInIndexOrder ==
    pc = "returned" => delivered.text = ContentsFrom(0)

\* C1 witness: a concurrent call on three chunks has returned after its
\* results were appended in the order 2, 0, 1.
C1_Witness ==
    /\ pc = "returned"
    /\ parallel
    /\ completion = <<2, 0, 1>>

\* C2: once every chunk job of a call with at least one chunk has resolved,
\* the result collection holds one result per chunk and its indices are
\* exactly 0 .. N-1.
C2_IndexSetExact ==
    (pc = "assemble" /\ chunks_count >= 1) =>
        /\ Len(results) = chunks_count
        /\ \A k \in 1..Len(results) : results[k] # None
        /\ {results[k].index : k \in 1..Len(results)} = 0..(chunks_count - 1)

\* The pieces of a text between its "\n\n" separators.
RECURSIVE Pieces(_)
Pieces(t) ==
    IF \A k \in 1..Len(t) : t[k] # "\n\n" THEN <<t>>
    ELSE LET k == CHOOSE n \in 1..Len(t) :
                      /\ t[n] = "\n\n"
                      /\ \A j \in 1..(n - 1) : t[j] # "\n\n"
         IN <<SubSeq(t, 1, k - 1)>> \o Pieces(SubSeq(t, k + 1, Len(t)))

\* C3: a chunk job whose every attempt failed has returned a result with its
\* own index, success false and the placeholder around the message of its last
\* failed attempt; the call does not raise, and the text it returns holds the
\* content of every chunk at the position of its index.
C3_FailureAbsorbed ==
    \A i \in DOMAIN jobs :
        AllFailed(i) =>
            /\ jobs[i].value =
                   [index |-> i,
                    content |-> <<"<!-- failed: "
                                  \o jobs[i].errs[Len(jobs[i].errs)] \o " -->">>,
                    success |-> FALSE]
            /\ pc \notin {"except", "raised"}
            /\ pending.kind # "raise"
            /\ pc = "returned" =>
                   /\ Len(Pieces(delivered.text)) = chunks_count
                   /\ \A j \in DOMAIN jobs :
                          Pieces(delivered.text)[j + 1] = jobs[j].value.content

\* C3 witness: a call has returned in which one chunk failed every one of
\* its two attempts and another chunk succeeded.
C3_Witness ==
    /\ pc = "returned"
    /\ max_retries = 2
    /\ \E i, j \in DOMAIN jobs :
          /\ AllFailed(i)
          /\ jobs[i].attempts = 2
          /\ i < j
          /\ jobs[j].value.success

\* C4: after a call has returned or raised, no chunk file written during the
\* call is left on disk.
C4_NoArtifactRemains ==
    pc \in {"returned", "raised"} => created \cap DOMAIN disk = {}

\* C5: for every max_retries >= 0, a _process_chunk call that has returned
\* has returned a result with index, content and success, and the call of
\* convert_to_markdown does not raise because of a chunk.
C5_ProcessYieldsResult ==
    /\ \A i \in DOMAIN jobs :
          Done(i) => DOMAIN jobs[i].value = {"index", "content", "success"}
    /\ pc = "raised" => exc # "'NoneType' object is not subscriptable"

\* The delays 2^0, ..., 2^(n-1).
Delays(n) == [k \in 1..n |-> 2 ^ (k - 1)]

\* C6: a chunk job whose every attempt failed made exactly max_retries
\* attempts and slept 2^k after failed attempt k only before a next attempt:
\* max_retries - 1 delays, none after the last attempt.
C6_BackoffOnlyBeforeRetry ==
    \A i \in DOMAIN jobs :
        AllFailed(i) =>
            /\ jobs[i].attempts = max_retries
            /\ jobs[i].sleeps = Delays(max_retries - 1)

\* C7: once the document has been converted in both modes with the same
\* outcomes of the remote model, the two calls have returned the same text
\* and counted the same number of successes.
C7_ModesAgree ==
    (by_mode[TRUE] # None /\ by_mode[FALSE] # None) =>
        /\ by_mode[TRUE].text = by_mode[FALSE].text
        /\ by_mode[TRUE].success_count = by_mode[FALSE].success_count

\* C7 witness: both modes have returned, the concurrent call having appended
\* its results in another order than the sequential call, with one chunk
\* failed and one succeeded.
C7_Witness ==
    /\ by_mode[TRUE] # None
    /\ by_mode[FALSE] # None
    /\ by_mode[TRUE].order # by_mode[FALSE].order
    /\ by_mode[TRUE].success_count = 1
    /\ Len(by_mode[TRUE].order) = 2

\* ceil(p / s).
CeilDiv(p, s) == (p + s - 1) \div s

\* The pages lo .. hi in order.
PagesFromTo(lo, hi) == [k \in 1..(hi - lo + 1) |-> lo + k - 1]

\* C8: the split of a document of P >= 1 pages into chunks of S pages has
\* produced ceil(P/S) chunk files in order, chunk i holding exactly the pages
\* i*S+1 .. min((i+1)*S, P), and the page range computed for chunk i when it
\* is processed is that range.
C8_SplitCoversPagesInOrder ==
    (pc \in {"submit", "collect", "sequential", "assemble"} /\ doc_pages >= 1) =>
        /\ chunks_count = CeilDiv(doc_pages, chunk_size)
        /\ \A i \in 0..(chunks_count - 1) :
              /\ Exists(FileOf(i))
              /\ disk[FileOf(i)] =
                     PagesFromTo(i * chunk_size + 1,
                                 Min((i + 1) * chunk_size, doc_pages))
              /\ jobs[i].page_info # <<>> =>
                     jobs[i].page_info =
                         <<i * chunk_size + 1, Min((i + 1) * chunk_size, doc_pages)>>
        /\ UNION {Range(disk[FileOf(i)]) : i \in 0..(chunks_count - 1)}
               = 1..doc_pages

\* C8 witness: a document of 10 pages was split with 3 pages per chunk into
\* 4 chunks and the page range of the last one was computed as 10 - 10.
C8_Witness ==
    /\ doc_pages = 10
    /\ chunk_size = 3
    /\ pc = "sequential"
    /\ chunks_count = 4
    /\ jobs[2].page_info = <<7, 9>>
    /\ jobs[3].page_info = <<10, 10>>

\* C9: an exception of the try block reaches the caller as one Exception
\* whose message is the wrapper prefix followed by the cause's message, and
\* not before the finally loop has gone over every file of temp_files.
C9_WrappedAfterCleanup ==
    /\ pc = "raised" =>
          /\ delivered = [kind |-> "raise", text |-> <<"convert error: " \o exc>>]
          /\ visited = Range(temp_files)
    /\ pc \in {"except", "finally"} => delivered = NoOutcome

\* C9 witness: a call has raised after the split had recorded two chunk
\* files, and both were removed.
C9_Witness ==
    /\ pc = "raised"
    /\ Len(temp_files) = 2
    /\ visited = Range(temp_files)
    /\ Range(temp_files) \cap DOMAIN disk = {}

\* C10: after a save_markdown call that returned, the destination holds the
\* text of that call and nothing else, whatever it held before.
C10_SaveOverwrites ==
    (save_log # <<>> /\ save_log[Len(save_log)].state = "saved") =>
        out_file = [exists |-> TRUE, content |-> save_log[Len(save_log)].text]

\* C10 witness: the same non-empty text was saved twice in a row.
C10_Witness ==
    /\ Len(save_log) = 2
    /\ save_log[1].state = "saved"
    /\ save_log[2].state = "saved"
    /\ save_log[1].text = save_log[2].text
    /\ Len(save_log[2].text) = 2

\* C11: in every interleaving, a step that removes a chunk file from disk is
\* taken only when every _process_chunk call of the call has returned, also
\* after the collection loop has raised.
C11_NoDeletionBeforeJobsReturn ==
    [][(\E f \in DOMAIN disk : f \notin DOMAIN disk') =>
           \A i \in DOMAIN jobs : jobs[i].st \in {"returned", "collected"}]_vars

\* C11 witness: the collection loop of a concurrent call raised while a job
\* was unfinished; that job then made its two attempts, and the call has
\* raised with its chunk files removed.
C11_Witness ==
    /\ pc = "raised"
    /\ parallel
    /\ exc = "collect failed"
    /\ \E i \in DOMAIN jobs : jobs[i].awaited /\ jobs[i].attempts = 2
    /\ temp_files # <<>>
    /\ Range(temp_files) \cap DOMAIN disk = {}

\* The states of a chunk job: Pending, Attempting(k), Succeeded and
\* PermanentlyFailed.
Pending(job) == job.st \in {"none", "queued"}
Attempting(job, k) == job.st = "running" /\ job.attempt = k
Resolved(job) == job.st \in {"returned", "collected"}
IsResult(v) == DOMAIN v = {"index", "content", "success"}
Succeeded(job) == Resolved(job) /\ IsResult(job.value) /\ job.value.success
PermanentlyFailed(job) ==
    Resolved(job) /\ IsResult(job.value) /\ ~job.value.success

\* One step of one chunk job, from state a to state b, follows the state
\* machine.
JobStep(a, b) ==
    \* Pending is left for Attempting(0) only (with max_retries = 0 no attempt
    \* is made and the call returns at once).
    /\ (Pending(a) /\ ~Pending(b)) =>
           \/ Attempting(b, 0) /\ b.attempts = 0
           \/ max_retries = 0 /\ Resolved(b) /\ b.attempts = 0
    \* Attempting(k) is left for Attempting(k+1) only when attempt k failed.
    /\ (a.st = "running" /\ b.st = "running" /\ b # a) =>
           /\ b.attempt = a.attempt + 1
           /\ b.attempts = a.attempts + 1
           /\ Len(b.errs) = Len(a.errs) + 1
    /\ b.st = "running" => b.attempts = b.attempt /\ b.attempt < max_retries
    \* Succeeded is reached from an attempt, which did not fail.
    /\ (~Resolved(a) /\ Succeeded(b)) =>
           /\ a.st = "running"
           /\ b.attempts = a.attempts + 1
           /\ b.errs = a.errs
    \* PermanentlyFailed is reached from the last of max_retries failed
    \* attempts.
    /\ (~Resolved(a) /\ PermanentlyFailed(b)) =>
           /\ Attempting(a, max_retries - 1)
           /\ b.attempts = max_retries
           /\ Len(b.errs) = max_retries
    \* Succeeded and PermanentlyFailed are terminal: no further attempt.
    /\ Resolved(a) =>
           /\ Resolved(b)
           /\ b.value = a.value
           /\ b.attempts = a.attempts
           /\ b.errs = a.errs
           /\ b.attempt = a.attempt

C13_AssemblyNeverRaises ==
    /\ exc \notin {"division by zero", "'NoneType' object is not subscriptable"}
    /\ (pc \in {"finally", "returned"} /\ pending.kind = "return") =>
           /\ success_count =
                  Cardinality({k \in DOMAIN results : results[k].success})
           /\ success_count \in 0..chunks_count

\* C14: when fitz.open fails in _split_pdf the call aborts before any chunk
\* work: from then on no job exists, no request is made to the model, nothing
\* is written, and the call ends by raising the wrapped error to its caller.
C14_OpenFailureAborts ==
    [][exc' = "cannot open document" =>
           /\ pc' \in {"except", "finally", "raised"}
           /\ jobs' = <<>>
           /\ results' = <<>>
           /\ oracle' = oracle
           /\ disk' = disk
           /\ pc' = "finally" => pending'.kind = "raise"
           /\ pc' = "raised" =>
                  delivered' = [kind |-> "raise",
                                text |-> <<WrapError("cannot open document")>>]]_vars

\* C14 witness: a call on a document with pages, with retries configured, has
\* raised because the document could not be opened.
C14_Witness ==
    /\ pc = "raised"
    /\ exc = "cannot open document"
    /\ doc_pages >= 1
    /\ max_retries >= 1
    /\ delivered.kind = "raise"
    /\ jobs = <<>>

\* A step of the worker that runs job i: the job changes while it is queued
\* or running.
WorkerStep(i) ==
    /\ i \in DOMAIN jobs'
    /\ jobs[i].st \in {"queued", "running"}
    /\ jobs'[i] # jobs[i]

\* The results collected so far are the values of the jobs yielded so far, one
\* entry for each, in the order of completion.
CollectedOncePerJob ==
    /\ Len(results) = Len(completion)
    /\ \A k \in DOMAIN completion :
          /\ completion[k] \in DOMAIN jobs
          /\ jobs[completion[k]].st = "collected"
          /\ results[k] = jobs[completion[k]].value
    /\ \A k, l \in DOMAIN completion : completion[k] = completion[l] => k = l
    /\ \A i \in DOMAIN jobs : jobs[i].st = "collected" => i \in Range(completion)

\* C15: in parallel mode a worker writes nothing but its own job (no other
\* job, not the results); the results grow only by the orchestrator appending
\* the value of one finished job not yet collected; so at every point of the
\* loop the results are the values of the collected jobs, none lost, none
\* twice, and all of them when the loop is left.
C15_OnlyOrchestratorAppends ==
    [][parallel' =>
          /\ \A i \in DOMAIN jobs :
                WorkerStep(i) =>
                    /\ results' = results
                    /\ completion' = completion
                    /\ \A j \in DOMAIN jobs \ {i} : jobs'[j] = jobs[j]
          /\ (pc = "collect" /\ results' # results) =>
                \E i \in DOMAIN jobs :
                    /\ jobs[i].st = "returned"
                    /\ i \notin Range(completion)
                    /\ results' = Append(results, jobs[i].value)
                    /\ \A j \in DOMAIN jobs \ {i} : jobs'[j] = jobs[j]
          /\ pc' = "collect" => CollectedOncePerJob'
          /\ (pc = "collect" /\ pc' = "assemble") =>
                /\ Range(completion') = DOMAIN jobs
                /\ Len(results') = chunks_count]_vars

\* C15 witness: three jobs ran in parallel, the last submitted finished first,
\* results of both kinds were collected, and the loop was left.
C15_Witness ==
    /\ parallel
    /\ pc = "assemble"
    /\ Len(completion) = 3
    /\ completion[1] = 2
    /\ Len(results) = 3
    /\ max_retries = 2
    /\ \E k, l \in DOMAIN results : results[k].success /\ ~results[l].success

\* C16: a cleanup removes only files of its own call's temp_files, never a
\* file of the overlapping call, so no chunk job of either call finds its
\* file gone.
C16_CleanupOnlyOwnFiles ==
    [][/\ \A f \in DOMAIN disk \ DOMAIN disk' :
             \/ pc = "finally" /\ pc' # "finally" /\ other_pc' = other_pc
                  /\ f \in Range(temp_files) /\ f \notin Range(other_files)
             \/ other_pc = "finally" /\ other_pc' = "done" /\ pc' = pc
                  /\ f \in Range(other_files) /\ f \notin Range(temp_files)
       /\ other_missed' = {}
       /\ \A i \in DOMAIN jobs' : ReadError \notin Range(jobs'[i].errs)]_vars

\* C16 witness: the first call cleaned up while the second was processing its
\* chunks, and the second has since read all of its files; the first call's
\* files are gone.
C16_Witness ==
    /\ pc \in {"returned", "raised"}
    /\ temp_files # <<>>
    /\ Range(temp_files) \cap DOMAIN disk = {}
    /\ other_pc = "finally"
    /\ Len(other_files) = 2
    /\ Range(other_files) \subseteq DOMAIN disk
    /\ other_files[1] < temp_files[1]
    /\ temp_files[1] < other_files[2]

\* The requests made to the remote model for chunk i, and all of them.
RequestsFor(i) == {r \in DOMAIN oracle : r[1] = i}
Terminated == pc \in {"returned", "raised"} /\ plan = <<>>

\* C17: every call ends, by returning or raising, in either mode; no chunk
\* is sent to the remote model more than max_retries times and the N chunks
\* of a call no more than N * max_retries times together.
C17_TerminatesWithinRetries ==
    /\ <>Terminated
    /\ [](/\ \A i \in DOMAIN jobs :
               /\ jobs[i].attempts <= max_retries
               /\ Cardinality(RequestsFor(i)) <= max_retries
          /\ Cardinality(DOMAIN oracle) <= chunks_count * max_retries)

\* C17 witness: a parallel call on three chunks has ended after every one of
\* its 3 * 2 requests failed.
C17_Witness ==
    /\ Terminated
    /\ parallel
    /\ max_retries = 2
    /\ chunks_count = 3
    /\ Cardinality(DOMAIN oracle) = chunks_count * max_retries
    /\ \A i \in DOMAIN jobs : PermanentlyFailed(jobs[i])

====
